---- MODULE Spec2Model ----
(***************************************************************************)
(* Model of the worker/verifier orchestration engine of `verifiers`:       *)
(* the checkbox file store (file_manager.rs), the CLI invoker and the      *)
(* orchestration loop (runner.rs) and the start of a run (main.rs, app.rs).*)
(*                                                                         *)
(* Text is modelled as a sequence of one-character strings, so that the    *)
(* line splitting and the two regular expressions of the file store are    *)
(* computed character by character, as the code computes them.            *)
(***************************************************************************)
EXTENDS Integers, Sequences, FiniteSets, TLC

(***************************************************************************)
(* Bounds of the model.                                                    *)
(***************************************************************************)
\* longest verifier list of the setup screen
MaxVerifiers == 2
\* most lines the CLI children append to the scratch file in one run
MaxAppended == 1

(***************************************************************************)
(* Program constants.                                                      *)
(***************************************************************************)
max_iterations == 10

(***************************************************************************)
(* Text helpers.                                                           *)
(***************************************************************************)
NL == "\n"
CR == "\r"

RECURSIVE Str(_)
\* the characters of cs as one string (used for the text of events)
Str(cs) == IF cs = <<>> THEN "" ELSE Head(cs) \o Str(Tail(cs))

StartsWith(s, p) == Len(s) >= Len(p) /\ SubSeq(s, 1, Len(p)) = p

EndsWith(s, p) == Len(s) >= Len(p) /\ SubSeq(s, Len(s) - Len(p) + 1, Len(s)) = p

\* str::lines() removes one trailing "\r" from a line that ended in "\r\n"
StripCR(l) == IF EndsWith(l, <<CR>>) THEN SubSeq(l, 1, Len(l) - 1) ELSE l

RECURSIVE SplitNL(_, _)
\* the lines of text s ending in "\n", cur being the characters of the
\* line in progress; returns <<complete lines, unterminated rest>>
SplitNL(s, cur) ==
    IF s = <<>> THEN <<(<<>>), cur>>
    ELSE IF Head(s) = NL
         THEN LET r == SplitNL(Tail(s), <<>>)
              IN  <<(<<StripCR(cur)>>) \o r[1], r[2]>>
         ELSE SplitNL(Tail(s), Append(cur, Head(s)))

\* str::lines(): lines are terminated by "\n" or "\r\n"; a final line
\* without terminator is a line, and an empty final line is not
Lines(s) ==
    LET r == SplitNL(s, <<>>)
    IN  IF r[2] = <<>> THEN r[1] ELSE Append(r[1], r[2])

RECURSIVE Join(_, _)
\* [String]::join(sep)
Join(ls, sep) ==
    IF ls = <<>> THEN <<>>
    ELSE IF Len(ls) = 1 THEN ls[1]
    ELSE ls[1] \o sep \o Join(Tail(ls), sep)

(***************************************************************************)
(* file_manager.rs                                                         *)
(***************************************************************************)
RECURSIVE CheckboxLines(_)
\* the loop of FileManager::create: one "[] name\n" per verifier name
CheckboxLines(names) ==
    IF names = <<>> THEN <<>>
    ELSE <<"[", "]", " ">> \o Head(names) \o <<NL>> \o CheckboxLines(Tail(names))

\* FileManager::create: the contents written to the new file
Create(names, prompt) == CheckboxLines(names) \o <<NL>> \o prompt \o <<NL>>

\* Captures with a fault: the x of the brackets in either case
CapturesAnyCase(line) ==
    IF (StartsWith(line, <<"[", "x", "]", " ">>) \/ StartsWith(line, <<"[", "X", "]", " ">>))
       /\ Len(line) > 4
    THEN <<[name |-> SubSeq(line, 5, Len(line)), checked |-> TRUE]>>
    ELSE IF StartsWith(line, <<"[", " ", "]", " ">>) /\ Len(line) > 4
    THEN <<[name |-> SubSeq(line, 5, Len(line)), checked |-> FALSE]>>
    ELSE IF StartsWith(line, <<"[", "]", " ">>) /\ Len(line) > 3
    THEN <<[name |-> SubSeq(line, 4, Len(line)), checked |-> FALSE]>>
    ELSE <<>>

\* Captures with a fault: the name taken from the fifth character on,
\* whatever the brackets hold
CapturesFixedOffset(line) ==
    IF StartsWith(line, <<"[", "x", "]", " ">>) /\ Len(line) > 4
    THEN <<[name |-> SubSeq(line, 5, Len(line)), checked |-> TRUE]>>
    ELSE IF StartsWith(line, <<"[", " ", "]", " ">>) /\ Len(line) > 4
    THEN <<[name |-> SubSeq(line, 5, Len(line)), checked |-> FALSE]>>
    ELSE IF StartsWith(line, <<"[", "]", " ">>) /\ Len(line) > 3
    THEN <<[name |-> SubSeq(line, 5, Len(line)), checked |-> FALSE]>>
    ELSE <<>>

\* the regular expression ^\[(x| |)\] (.+)$ of parse_checkboxes on one line:
\* <<>> when the line does not match, else <<[name, checked]>>
Captures(line) ==
    IF StartsWith(line, <<"[", "x", "]", " ">>) /\ Len(line) > 4
    THEN <<[name |-> SubSeq(line, 5, Len(line)), checked |-> TRUE]>>
    ELSE IF StartsWith(line, <<"[", " ", "]", " ">>) /\ Len(line) > 4
    THEN <<[name |-> SubSeq(line, 5, Len(line)), checked |-> FALSE]>>
    ELSE IF StartsWith(line, <<"[", "]", " ">>) /\ Len(line) > 3
    THEN <<[name |-> SubSeq(line, 4, Len(line)), checked |-> FALSE]>>
    ELSE <<>>

RECURSIVE ParseLines(_)
ParseLines(ls) ==
    IF ls = <<>> THEN <<>> ELSE Captures(Head(ls)) \o ParseLines(Tail(ls))

\* FileManager::parse_checkboxes on contents that were read successfully
parse_checkboxes(contents) == ParseLines(Lines(contents))

\* UncheckLine with a fault: the line is written back as it was
UncheckLineKept(line) == line

\* the closure of uncheck_all: a line matching ^\[x\]  becomes "[] " + line[4..]
UncheckLine(line) ==
    IF StartsWith(line, <<"[", "x", "]", " ">>)
    THEN <<"[", "]", " ">> \o SubSeq(line, 5, Len(line))
    ELSE line

\* uncheck_all with a fault: the contents written back always end in "\n"
uncheck_all_terminated(contents) ==
    LET ls == Lines(contents)
        new_contents == Join([j \in 1..Len(ls) |-> UncheckLine(ls[j])], <<NL>>)
    IN  new_contents \o <<NL>>

\* FileManager::uncheck_all: the contents written back
uncheck_all(contents) ==
    LET ls == Lines(contents)
        new_contents == Join([j \in 1..Len(ls) |-> UncheckLine(ls[j])], <<NL>>)
    IN  IF EndsWith(contents, <<NL>>) THEN new_contents \o <<NL>> ELSE new_contents

(***************************************************************************)
(* app.rs: RunnerMessage                                                   *)
(***************************************************************************)
Log(text) == [type |-> "Log", text |-> text]
VerifierStatusUpdate(index, status) ==
    [type |-> "VerifierStatusUpdate", index |-> index, status |-> status]
IterationStart(n) == [type |-> "IterationStart", n |-> n]
FileUpdated == [type |-> "FileUpdated"]
Done == [type |-> "Done"]
Error(text) == [type |-> "Error", text |-> text]

(***************************************************************************)
(* Inputs of a run: the verifier list and the task prompt of the setup     *)
(* screen, and what the external CLI and the file system may do.           *)
(***************************************************************************)
\* verifier names that differ only in case
Names == {<<"a">>, <<"A">>}

\* run_loop never reads Verifier::enabled; the lists of this specification
\* hold enabled verifiers
EnabledFlags == {TRUE}

Verifiers == [name : Names, enabled : EnabledFlags]

\* a list of n verifiers whose names alternate
Alternating(n) ==
    [k \in 1..n |-> [name |-> IF k % 2 = 1 THEN <<"a">> ELSE <<"A">>, enabled |-> TRUE]]

\* the verifier lists of the setup screen: every list of one or two
\* verifiers, and one list of each greater length
VerifierLists ==
    UNION {[1..n -> Verifiers] : n \in 1..(IF MaxVerifiers < 2 THEN MaxVerifiers ELSE 2)}
    \cup {Alternating(n) : n \in 3..MaxVerifiers}

\* task prompts: plain text, and text that reads like a checkbox line
Prompts == {<<"P">>, <<"[", "x", "]", " ", "a">>}

\* lines a CLI child may append: a section header
AppendPool == {<<"=", "w">>}

\* the messages of the three failures of run_claude
ErrWrite == "Failed to write prompt file: io error"
ErrSpawn == "Failed to spawn claude: io error"
ErrExit == "claude exited with exit status: 1: stdout=, stderr="

IoError == "io error"

VARIABLES
    screen,         \* App::screen
    prompt_input,   \* App::prompt_input
    verifiers,      \* App::verifiers, cloned into run_loop at the start
    file,           \* contents of the scratch file
    pc,             \* position of the run_loop task
    iteration,      \* run_loop: iteration
    i,              \* run_loop: index of the verifier loop, 1-based
    all_passed,     \* run_loop: all_passed
    cli,            \* run_claude: "idle", "running", or the Result returned
    log,            \* messages sent on tx since the last IterationStart or
                    \* the last VerifierStatusUpdate(_, Running), that one included
    reported,       \* last status sent for each verifier index in this iteration
    starts,         \* payloads of all IterationStart messages sent
    nDone,          \* number of Done messages sent
    nUncheck,       \* number of calls of uncheck_all
    invoked,        \* run_claude calls of this iteration: 0 worker, k verifier k
    parsed,         \* verifiers of this iteration parse_checkboxes was called for
    outcome,        \* what happened so far: worker / uncheck failures, failed iterations
    unreported,     \* a CLI child has run and no FileUpdated was sent since
    writing,        \* uncheck_all is inside fs::write: the file is truncated and
                    \* the new contents are not all written yet
    rx,             \* main.rs: rx is Some(receiver)
    chan,           \* messages sent on tx and not yet received
    verifier_statuses, \* App::verifier_statuses
    file_contents,  \* App::file_contents
    app_iteration,  \* App::iteration
    logs,           \* the last line of App::logs
    handled,        \* the message handle_runner_message was called with last
    op,             \* the file-store operation applied last
    before,         \* the contents of the file before that operation
    returned,       \* the value that operation returned
    rc              \* a call of run_claude taken step by step: its position, what
                    \* the system calls gave it, its prompt file, its Result

vars == <<screen, prompt_input, verifiers, file, pc, iteration, i, all_passed,
          cli, log, reported, starts, nDone, nUncheck, invoked, parsed, outcome,
          unreported, writing, rx, chan, verifier_statuses, file_contents, app_iteration,
          logs, handled, op, before, returned, rc>>

appVars == <<screen, prompt_input, verifiers>>
obsVars == <<reported, starts, nDone, nUncheck, invoked, parsed, outcome>>
loopVars == <<file, pc, iteration, i, all_passed, cli, log>>
uiVars == <<rx, chan, verifier_statuses, file_contents, app_iteration, logs, handled>>
fsVars == <<op, before, returned>>

\* no call of run_claude is followed step by step
NotCalled ==
    [pos |-> "none", n |-> 0, wrote |-> FALSE, spawned |-> FALSE, code |-> 0,
     stdout |-> "", stderr |-> "", prompt_file |-> FALSE, cleaned |-> FALSE,
     left |-> 0, result |-> [st |-> "none"]]

\* tx.send(m): the channel is unbounded and the send never fails the loop
Send(l, ms) == l \o ms

\* the Result of run_claude, and the two states of a call before it returns
Ok == [st |-> "ok"]
Err(e) == [st |-> "err", e |-> e]
Idle == [st |-> "idle"]
Running == [st |-> "running"]

\* App::new, then load_verifiers and the prompt typed on the setup screen
Constructed(lists, prompts) ==
    /\ screen = "Setup"
    /\ prompt_input \in prompts
    /\ verifiers \in lists
    /\ file = <<>>
    /\ pc = "idle"
    /\ iteration = 0
    /\ i = 0
    /\ all_passed = TRUE
    /\ cli = Idle
    /\ log = <<>>
    /\ reported = <<>>
    /\ starts = <<>>
    /\ nDone = 0
    /\ nUncheck = 0
    /\ invoked = <<>>
    /\ parsed = <<>>
    /\ outcome = [workerFailed |-> FALSE, uncheckFailed |-> FALSE, failedIters |-> 0]
    /\ unreported = FALSE
    /\ writing = FALSE
    /\ rx = FALSE
    /\ chan = <<>>
    /\ verifier_statuses = <<>>
    /\ file_contents = <<>>
    /\ app_iteration = 0
    /\ logs = ""
    /\ handled = <<>>
    /\ op = "none"
    /\ before = <<>>
    /\ returned = <<>>
    /\ rc = NotCalled

Init == Constructed(VerifierLists, Prompts)

(***************************************************************************)
(* main.rs / app.rs: Ctrl+S on the setup screen                            *)
(***************************************************************************)
\* App::can_start (a prompt of the model is empty or not blank)
can_start == prompt_input # <<>> /\ \E k \in 1..Len(verifiers) : verifiers[k].enabled

\* the names the scratch file is created from (main.rs:94-95)
verifier_names == [k \in 1..Len(verifiers) |-> verifiers[k].name]

StartRun ==
    /\ screen = "Setup"
    /\ can_start
    /\ file' = Create(verifier_names, prompt_input)
    /\ screen' = "Running"
    /\ pc' = "for"
    /\ iteration' = 0
    /\ i' = 0
    /\ all_passed' = TRUE
    /\ cli' = Idle
    /\ log' = <<>>
    /\ reported' = <<>>
    /\ starts' = <<>>
    /\ nDone' = 0
    /\ nUncheck' = 0
    /\ invoked' = <<>>
    /\ parsed' = <<>>
    /\ outcome' = [workerFailed |-> FALSE, uncheckFailed |-> FALSE, failedIters |-> 0]
    /\ UNCHANGED <<prompt_input, verifiers>>

(***************************************************************************)
(* The external CLI: what a child process may write to the scratch file    *)
(* while it runs.  The prompts ask it to append a section and to check a   *)
(* checkbox line; nothing prevents it from editing any checkbox line.      *)
(***************************************************************************)
SetBox(line, content) ==
    LET c == Captures(line)
    IN  IF c = <<>> THEN line ELSE <<"[">> \o content \o <<"]", " ">> \o c[1].name

ChildWrites(contents) ==
    LET ls == Lines(contents)
        created == Lines(Create(verifier_names, prompt_input))
    IN  {Join([ls EXCEPT ![j] = SetBox(ls[j], b)], <<NL>>) \o <<NL>> :
            j \in 1..Len(ls), b \in {<<"x">>, <<>>}}
        \cup {contents \o l \o <<NL>> :
                l \in IF Len(ls) < Len(created) + MaxAppended THEN AppendPool ELSE {}}

(***************************************************************************)
(* runner.rs: run_claude                                                   *)
(***************************************************************************)
\* run_claude is called: the prompt file is written and the child spawned
RunClaudeStart ==
    /\ pc \in {"worker", "verifier"}
    /\ cli = Idle
    /\ \E r \in {Err(ErrWrite), Err(ErrSpawn), Running} : cli' = r
    /\ invoked' = Append(invoked, IF pc = "worker" THEN 0 ELSE i)
    /\ UNCHANGED <<file, pc, iteration, i, all_passed, log>>
    /\ UNCHANGED <<reported, starts, nDone, nUncheck, parsed, outcome>>
    /\ UNCHANGED appVars

\* the child edits the scratch file
ChildWrite ==
    /\ cli = Running
    /\ \E c \in ChildWrites(file) \ {file} : file' = c
    /\ UNCHANGED <<pc, iteration, i, all_passed, cli, log>>
    /\ UNCHANGED obsVars
    /\ UNCHANGED appVars

\* the child exits: status zero is Ok(stdout), any other status is Err
ChildExit ==
    /\ cli = Running
    /\ \E success \in BOOLEAN : cli' = IF success THEN Ok ELSE Err(ErrExit)
    /\ UNCHANGED <<file, pc, iteration, i, all_passed, log>>
    /\ UNCHANGED obsVars
    /\ UNCHANGED appVars

(***************************************************************************)
(* runner.rs: run_loop                                                     *)
(***************************************************************************)
\* Passed with a fault: any entry of that name that is checked
PassedAny(checkboxes, name) ==
    \E k \in 1..Len(checkboxes) : checkboxes[k].name = name /\ checkboxes[k].checked

\* checkboxes.iter().find(|(name, _)| name == &verifier.name)
\*     .map(|(_, checked)| *checked).unwrap_or(false)
Passed(checkboxes, name) ==
    LET found == {k \in 1..Len(checkboxes) : checkboxes[k].name = name}
    IN  IF found = {} THEN FALSE
        ELSE checkboxes[CHOOSE k \in found : \A m \in found : k <= m].checked

\* the statuses after the messages ms, as the last VerifierStatusUpdate of
\* each index tells them
RECURSIVE Report(_, _)
Report(r, ms) ==
    IF ms = <<>> THEN r
    ELSE Report(IF Head(ms).type = "VerifierStatusUpdate"
                THEN [r EXCEPT ![Head(ms).index + 1] = Head(ms).status]
                ELSE r,
                Tail(ms))

\* a Passed status was the last one sent for every verifier of this iteration
EveryVerifierPassed == \A k \in 1..Len(verifiers) : reported[k] = "Passed"

\* HasNextIteration with a fault: the exclusive range 1..max_iterations
HasNextIterationExclusive(it) == it < max_iterations - 1

\* HasNextIteration with a fault: one iteration more than max_iterations
HasNextIterationInclusive(it) == it <= max_iterations

\* for iteration in 1..=max_iterations: after iteration it comes another one
HasNextIteration(it) == it < max_iterations

\* for iteration in 1..=max_iterations: the next iteration begins
IterationBegin ==
    /\ pc = "for"
    /\ HasNextIteration(iteration)
    /\ iteration' = iteration + 1
    /\ log' = Send(<<>>, <<IterationStart(iteration + 1),
                           Log("--- Iteration " \o ToString(iteration + 1) \o " ---"),
                           Log("Starting worker...")>>)
    /\ starts' = Append(starts, iteration + 1)
    /\ reported' = [k \in 1..Len(verifiers) |-> "Pending"]
    /\ invoked' = <<>>
    /\ parsed' = <<>>
    /\ pc' = "worker"
    /\ UNCHANGED <<file, i, all_passed, cli, nDone, nUncheck, outcome>>
    /\ UNCHANGED appVars

\* MaxIterationsReached with a fault: the task returns without the Error
MaxIterationsReachedSilent ==
    /\ pc = "for"
    /\ ~HasNextIteration(iteration)
    /\ log' = log
    /\ pc' = "returned"
    /\ UNCHANGED <<file, iteration, i, all_passed, cli>>
    /\ UNCHANGED obsVars
    /\ UNCHANGED appVars

\* the for loop is exhausted
MaxIterationsReached ==
    /\ pc = "for"
    /\ ~HasNextIteration(iteration)
    /\ log' = Send(log, <<Error("Reached maximum iterations ("
                                \o ToString(max_iterations) \o "). Stopping.")>>)
    /\ pc' = "returned"
    /\ UNCHANGED <<file, iteration, i, all_passed, cli>>
    /\ UNCHANGED obsVars
    /\ UNCHANGED appVars

\* the worker arm Ok and the start of the verifier phase, ap being the
\* value all_passed starts the phase with
WorkerOkStep(ap) ==
    /\ pc = "worker"
    /\ cli = Ok
    /\ log' = Send(log, <<Log("Worker complete."), FileUpdated>>)
    /\ all_passed' = ap
    /\ i' = 1
    /\ cli' = Idle
    /\ pc' = "verifiers"
    /\ UNCHANGED <<file, iteration>>
    /\ UNCHANGED obsVars
    /\ UNCHANGED appVars

\* WorkerOk with a fault: no FileUpdated after the worker
WorkerOkSilent ==
    /\ pc = "worker"
    /\ cli = Ok
    /\ log' = Send(log, <<Log("Worker complete.")>>)
    /\ all_passed' = TRUE
    /\ i' = 1
    /\ cli' = Idle
    /\ pc' = "verifiers"
    /\ UNCHANGED <<file, iteration>>
    /\ UNCHANGED obsVars
    /\ UNCHANGED appVars

\* WorkerOk with a fault: all_passed is set once, before the for loop
WorkerOkKeepsAllPassed == WorkerOkStep(all_passed)

\* WorkerOk with a fault: all_passed starts the verifier phase as false
WorkerOkStartsFalse == WorkerOkStep(FALSE)

\* match run_claude(&worker_prompt).await { Ok(_) => ... }; FileUpdated;
\* let mut all_passed = true
WorkerOk == WorkerOkStep(TRUE)

\* the worker arm Err, the loop going on at position next
WorkerErrStep(next) ==
    /\ pc = "worker"
    /\ cli.st = "err"
    /\ log' = Send(log, <<Error("Worker failed: " \o cli.e)>>)
    /\ cli' = Idle
    /\ pc' = next
    /\ outcome' = [outcome EXCEPT !.workerFailed = TRUE]
    /\ UNCHANGED <<file, iteration, i, all_passed>>
    /\ UNCHANGED <<reported, starts, nDone, nUncheck, invoked, parsed>>
    /\ UNCHANGED appVars

\* WorkerErr with a fault: the arm does not return and the iteration is retried
WorkerErrRetries == WorkerErrStep("for")

\* match run_claude(&worker_prompt).await { Err(e) => ... return }
WorkerErr == WorkerErrStep("returned")

\* for (i, verifier) in verifiers.iter().enumerate(): the next verifier
VerifierBegin ==
    /\ pc = "verifiers"
    /\ i <= Len(verifiers)
    /\ log' = Send(<<>>, <<VerifierStatusUpdate(i - 1, "Running"),
                           Log("Running verifier: " \o Str(verifiers[i].name) \o "...")>>)
    /\ reported' = Report(reported, log')
    /\ pc' = "verifier"
    /\ UNCHANGED <<file, iteration, i, all_passed, cli>>
    /\ UNCHANGED <<starts, nDone, nUncheck, invoked, parsed, outcome>>
    /\ UNCHANGED appVars

\* the verifier arm Err: the loop goes on with verifier next_i and ap is
\* the new all_passed
VerifierErrStep(next_i, ap) ==
    /\ pc = "verifier"
    /\ cli.st = "err"
    /\ log' = Send(log, <<Error("Verifier '" \o Str(verifiers[i].name)
                                \o "' failed to run: " \o cli.e),
                          VerifierStatusUpdate(i - 1, "Failed")>>)
    /\ reported' = Report(reported, log')
    /\ all_passed' = ap
    /\ i' = next_i
    /\ cli' = Idle
    /\ pc' = "verifiers"
    /\ UNCHANGED <<file, iteration>>
    /\ UNCHANGED <<starts, nDone, nUncheck, invoked, parsed, outcome>>
    /\ UNCHANGED appVars

\* VerifierErr with a fault: break instead of continue
VerifierErrBreaks == VerifierErrStep(Len(verifiers) + 1, FALSE)

\* VerifierErr with a fault: all_passed is left as it was
VerifierErrKeepsAllPassed == VerifierErrStep(i + 1, all_passed)

\* match run_claude(&verifier_prompt).await { Err(e) => ... continue }
VerifierErr == VerifierErrStep(i + 1, FALSE)

\* the messages and the all_passed of runner.rs:139-175, io_ok telling
\* whether parse_checkboxes could read the file
CheckVerifier(name, index, contents, io_ok, ap) ==
    IF ~io_ok
    THEN [msgs |-> <<Error("Failed to parse checkboxes: " \o IoError)>>,
          all_passed |-> FALSE]
    ELSE IF Passed(parse_checkboxes(contents), name)
    THEN [msgs |-> <<VerifierStatusUpdate(index, "Passed"),
                     Log(Str(name) \o ": PASSED")>>,
          all_passed |-> ap]
    ELSE [msgs |-> <<VerifierStatusUpdate(index, "Failed"),
                     Log(Str(name) \o ": FAILED")>>,
          all_passed |-> FALSE]

\* VerifierOk with a fault: the checkbox is checked without waiting for the
\* child to exit
VerifierOkNoWait ==
    /\ pc = "verifier"
    /\ cli \in {Ok, Running}
    /\ \E io_ok \in BOOLEAN :
          LET r == CheckVerifier(verifiers[i].name, i - 1, file, io_ok, all_passed)
          IN  /\ log' = Send(log, <<FileUpdated>> \o r.msgs)
              /\ all_passed' = r.all_passed
    /\ reported' = Report(reported, log')
    /\ parsed' = Append(parsed, i)
    /\ i' = i + 1
    /\ cli' = IF cli = Running THEN Running ELSE Idle
    /\ pc' = "verifiers"
    /\ UNCHANGED <<file, iteration>>
    /\ UNCHANGED <<starts, nDone, nUncheck, invoked, outcome>>
    /\ UNCHANGED appVars

\* match run_claude(&verifier_prompt).await { Ok(_) => {} }, FileUpdated,
\* and the check of the verifier's checkbox
VerifierOk ==
    /\ pc = "verifier"
    /\ cli = Ok
    /\ \E io_ok \in BOOLEAN :
          LET r == CheckVerifier(verifiers[i].name, i - 1, file, io_ok, all_passed)
          IN  /\ log' = Send(log, <<FileUpdated>> \o r.msgs)
              /\ all_passed' = r.all_passed
    /\ reported' = Report(reported, log')
    /\ parsed' = Append(parsed, i)
    /\ i' = i + 1
    /\ cli' = Idle
    /\ pc' = "verifiers"
    /\ UNCHANGED <<file, iteration>>
    /\ UNCHANGED <<starts, nDone, nUncheck, invoked, outcome>>
    /\ UNCHANGED appVars

\* AllPassedStep with a fault: all_passed is not looked at
AllPassedStepUnconditional(next) ==
    /\ pc = "verifiers"
    /\ i > Len(verifiers)
    /\ log' = Send(log, <<FileUpdated, Done>>)
    /\ nDone' = nDone + 1
    /\ pc' = next
    /\ outcome' = [outcome EXCEPT !.failedIters =
                      IF EveryVerifierPassed THEN @ ELSE @ + 1]
    /\ UNCHANGED <<file, iteration, i, all_passed, cli>>
    /\ UNCHANGED <<reported, starts, nUncheck, invoked, parsed>>
    /\ UNCHANGED appVars

\* the branch if all_passed, the loop going on at position next
AllPassedStep(next) ==
    /\ pc = "verifiers"
    /\ i > Len(verifiers)
    /\ all_passed
    /\ log' = Send(log, <<FileUpdated, Done>>)
    /\ nDone' = nDone + 1
    /\ pc' = next
    /\ outcome' = [outcome EXCEPT !.failedIters =
                      IF EveryVerifierPassed THEN @ ELSE @ + 1]
    /\ UNCHANGED <<file, iteration, i, all_passed, cli>>
    /\ UNCHANGED <<reported, starts, nUncheck, invoked, parsed>>
    /\ UNCHANGED appVars

\* AllPassed with a fault: the branch does not return
AllPassedGoesOn == AllPassedStep("for")

\* if all_passed { FileUpdated; Done; return }
AllPassed == AllPassedStep("returned")

\* NotAllPassedStep with a fault: uncheck_all is not called and the checked
\* boxes stay
NotAllPassedStepKeepsBoxes(next) ==
    /\ pc = "verifiers"
    /\ i > Len(verifiers)
    /\ ~all_passed
    /\ nUncheck' = nUncheck + 1
    /\ file' = file
    /\ log' = Send(log, <<Log("Not all verifiers passed. Unchecking all boxes and retrying..."),
                          FileUpdated>>)
    /\ pc' = "for"
    /\ outcome' = [outcome EXCEPT !.failedIters =
                      IF EveryVerifierPassed THEN @ ELSE @ + 1]
    /\ UNCHANGED <<iteration, i, all_passed, cli>>
    /\ UNCHANGED <<reported, starts, nDone, invoked, parsed>>
    /\ UNCHANGED appVars

\* the rest of the loop body when not all passed, the loop going on at
\* position next when uncheck_all fails
NotAllPassedStep(next) ==
    /\ pc = "verifiers"
    /\ i > Len(verifiers)
    /\ ~all_passed
    /\ nUncheck' = nUncheck + 1
    /\ \E io_ok \in BOOLEAN :
          LET l == Send(log, <<Log("Not all verifiers passed. Unchecking all boxes and retrying...")>>)
          IN  IF io_ok
              THEN /\ file' = uncheck_all(file)
                   /\ log' = Send(l, <<FileUpdated>>)
                   /\ pc' = "for"
                   /\ outcome' = [outcome EXCEPT !.failedIters =
                                     IF EveryVerifierPassed THEN @ ELSE @ + 1]
              ELSE /\ file' \in {file, <<>>}
                   /\ log' = Send(l, <<Error("Failed to uncheck boxes: " \o IoError)>>)
                   /\ pc' = next
                   /\ outcome' = [outcome EXCEPT !.uncheckFailed = TRUE,
                                     !.failedIters =
                                        IF EveryVerifierPassed THEN @ ELSE @ + 1]
    /\ UNCHANGED <<iteration, i, all_passed, cli>>
    /\ UNCHANGED <<reported, starts, nDone, invoked, parsed>>
    /\ UNCHANGED appVars

\* NotAllPassed with a fault: a failed uncheck_all does not return
NotAllPassedGoesOn == NotAllPassedStep("for")

\* not all passed: uncheck_all, then FileUpdated and the next iteration,
\* or Error and return
NotAllPassed == NotAllPassedStep("returned")

\* the messages a step of run_loop sends
NewMessages ==
    IF StartsWith(log', log) THEN SubSeq(log', Len(log) + 1, Len(log')) ELSE log'

\* a child that was spawned may have written to the file; a FileUpdated
\* tells the receiver to read the file again
Observe ==
    unreported' =
        IF \E n \in 1..Len(NewMessages) : NewMessages[n] = FileUpdated THEN FALSE
        ELSE IF cli = Idle /\ cli' = Running THEN TRUE
        ELSE unreported

\* a step of the run with nothing attached to the receiving end
LoopStep(A) == A /\ Observe /\ UNCHANGED writing /\ UNCHANGED uiVars /\ UNCHANGED <<fsVars, rc>>

\* run_loop and the CLI children on their own
Next ==
    \/ LoopStep(StartRun)
    \/ LoopStep(RunClaudeStart)
    \/ LoopStep(ChildWrite)
    \/ LoopStep(ChildExit)
    \/ LoopStep(IterationBegin)
    \/ LoopStep(MaxIterationsReached)
    \/ LoopStep(WorkerOk)
    \/ LoopStep(WorkerErr)
    \/ LoopStep(VerifierBegin)
    \/ LoopStep(VerifierErr)
    \/ LoopStep(VerifierOk)
    \/ LoopStep(AllPassed)
    \/ LoopStep(NotAllPassed)

Spec == Init /\ [][Next]_vars

\* the steps of the run_loop task, and the exit of the child it waits for
LoopRuns ==
    \/ LoopStep(RunClaudeStart)
    \/ LoopStep(ChildExit)
    \/ LoopStep(IterationBegin)
    \/ LoopStep(MaxIterationsReached)
    \/ LoopStep(WorkerOk)
    \/ LoopStep(WorkerErr)
    \/ LoopStep(VerifierBegin)
    \/ LoopStep(VerifierErr)
    \/ LoopStep(VerifierOk)
    \/ LoopStep(AllPassed)
    \/ LoopStep(NotAllPassed)

\* runs on a prompt of plain text
FairInit == Constructed(VerifierLists, {<<"P">>})

\* the runtime keeps polling the spawned task and every child exits in the
\* end, however long it goes on writing
FairSpec == FairInit /\ [][Next]_vars /\ WF_vars(LoopRuns)

(***************************************************************************)
(* runner.rs: run_loop called by any caller, with any verifier list, the   *)
(* empty one included, which the setup screen never passes.                *)
(***************************************************************************)
\* the verifier lists run_loop is called with
CalledLists == {<<>>} \cup {Alternating(n) : n \in 1..MaxVerifiers}

CalledInit == Constructed(CalledLists, {<<"P">>})

\* run_loop(file_manager, prompt, verifiers, tx) on a file FileManager::create
\* wrote for these verifiers
CallRunLoop ==
    /\ pc = "idle"
    /\ file' = Create(verifier_names, prompt_input)
    /\ pc' = "for"
    /\ UNCHANGED <<iteration, i, all_passed, cli, log>>
    /\ UNCHANGED obsVars
    /\ UNCHANGED appVars

CalledNext ==
    \/ LoopStep(CallRunLoop)
    \/ LoopStep(RunClaudeStart)
    \/ LoopStep(ChildWrite)
    \/ LoopStep(ChildExit)
    \/ LoopStep(IterationBegin)
    \/ LoopStep(MaxIterationsReached)
    \/ LoopStep(WorkerOk)
    \/ LoopStep(WorkerErr)
    \/ LoopStep(VerifierBegin)
    \/ LoopStep(VerifierErr)
    \/ LoopStep(VerifierOk)
    \/ LoopStep(AllPassed)
    \/ LoopStep(NotAllPassed)

CalledSpec == CalledInit /\ [][CalledNext]_vars

(***************************************************************************)
(* main.rs / app.rs: the event loop of the user interface, which holds the *)
(* receiving end of the channel while run_loop runs as a task of its own.  *)
(***************************************************************************)
\* most messages in the channel when run_loop sends again
MaxChan == 1

\* the lists load_verifiers returns here: one enabled verifier, and a
\* disabled verifier followed by an enabled one
LoadedLists ==
    {<<[name |-> <<"a">>, enabled |-> TRUE]>>,
     <<[name |-> <<"a">>, enabled |-> FALSE], [name |-> <<"A">>, enabled |-> TRUE]>>}

\* App::start_running: a Pending status for each enabled verifier
PendingStatuses ==
    LET on == SelectSeq(verifiers, LAMBDA v : v.enabled)
    IN  [k \in 1..Len(on) |-> [name |-> on[k].name, status |-> "Pending"]]

\* Ctrl+S with the receiver kept: start_running, read_contents, the log
\* line, rx = Some(receiver) and the spawn of run_loop
AppStartRun ==
    /\ StartRun
    /\ Observe
    /\ verifier_statuses' = PendingStatuses
    /\ \E read_ok \in BOOLEAN : file_contents' = IF read_ok THEN file' ELSE <<>>
    /\ logs' = "File created: path"
    /\ rx' = TRUE
    /\ chan' = <<>>
    /\ UNCHANGED <<app_iteration, handled, writing>>
    /\ UNCHANGED <<fsVars, rc>>

\* fs::write(&self.path, ..) in uncheck_all is File::create, which truncates
\* the file, followed by write_all: the step between the two. run_loop is a
\* task of the multi-threaded runtime, so the event loop runs on beside it.
UncheckOpen ==
    /\ pc = "verifiers"
    /\ i > Len(verifiers)
    /\ ~all_passed
    /\ ~writing
    /\ writing' = TRUE
    /\ UNCHANGED <<unreported, handled>>
    /\ UNCHANGED <<rx, chan, verifier_statuses, file_contents, app_iteration, logs>>
    /\ UNCHANGED <<appVars, loopVars, obsVars, fsVars, rc>>

\* what fs::read_to_string returns: the file, or while uncheck_all is inside
\* fs::write the truncated file before write_all or the new contents after it
ReadToString ==
    IF writing THEN {<<>>, uncheck_all(file)} ELSE {file}

\* a step of run_loop or of a CLI child while the user interface runs:
\* what is sent goes to the channel, or nowhere once the receiver is dropped
AppLoopStep(A) ==
    /\ A
    /\ Observe
    /\ writing' = FALSE
    /\ NewMessages # <<>> => Len(chan) <= MaxChan
    /\ chan' = IF rx THEN chan \o NewMessages ELSE chan
    /\ UNCHANGED <<rx, verifier_statuses, file_contents, app_iteration, logs, handled>>
    /\ UNCHANGED <<fsVars, rc>>

\* handle_runner_message with a fault: the file is read again on every message
handle_runner_message_rereads(msg) ==
    /\ logs' = CASE msg.type = "Log" -> msg.text
                 [] msg.type = "Done" -> "All verifiers passed!"
                 [] msg.type = "Error" -> "ERROR: " \o msg.text
                 [] OTHER -> logs
    /\ verifier_statuses' =
          CASE msg.type = "VerifierStatusUpdate" ->
                  IF msg.index + 1 \in 1..Len(verifier_statuses)
                  THEN [verifier_statuses EXCEPT ![msg.index + 1].status = msg.status]
                  ELSE verifier_statuses
            [] msg.type = "IterationStart" ->
                  [k \in 1..Len(verifier_statuses) |->
                      [verifier_statuses[k] EXCEPT !.status = "Pending"]]
            [] OTHER -> verifier_statuses
    /\ app_iteration' = IF msg.type = "IterationStart" THEN msg.n ELSE app_iteration
    /\ \/ file_contents' \in ReadToString
       \/ file_contents' = file_contents
    /\ screen' = IF msg.type = "Done" THEN "Done" ELSE screen

\* App::handle_runner_message
handle_runner_message(msg) ==
    /\ logs' = CASE msg.type = "Log" -> msg.text
                 [] msg.type = "Done" -> "All verifiers passed!"
                 [] msg.type = "Error" -> "ERROR: " \o msg.text
                 [] OTHER -> logs
    /\ verifier_statuses' =
          CASE msg.type = "VerifierStatusUpdate" ->
                  IF msg.index + 1 \in 1..Len(verifier_statuses)
                  THEN [verifier_statuses EXCEPT ![msg.index + 1].status = msg.status]
                  ELSE verifier_statuses
            [] msg.type = "IterationStart" ->
                  [k \in 1..Len(verifier_statuses) |->
                      [verifier_statuses[k] EXCEPT !.status = "Pending"]]
            [] OTHER -> verifier_statuses
    /\ app_iteration' = IF msg.type = "IterationStart" THEN msg.n ELSE app_iteration
    /\ IF msg.type = "FileUpdated"
       THEN \/ file_contents' \in ReadToString
            \/ file_contents' = file_contents
       ELSE file_contents' = file_contents
    /\ screen' = IF msg.type = "Done" THEN "Done" ELSE screen

\* one turn of `while let Ok(msg) = receiver.try_recv()`
Drain ==
    /\ rx
    /\ chan # <<>>
    /\ chan' = Tail(chan)
    /\ handled' = Head(chan)
    /\ handle_runner_message(Head(chan))
    /\ UNCHANGED <<prompt_input, verifiers, rx, unreported, writing>>
    /\ UNCHANGED <<loopVars, obsVars, fsVars, rc>>

\* Ctrl+N on the screens in from: reset_for_new_run and rx = None
ResetStep(from) ==
    /\ screen \in from
    /\ screen' = "Setup"
    /\ prompt_input' = <<>>
    /\ verifier_statuses' = <<>>
    /\ logs' = ""
    /\ file_contents' = <<>>
    /\ app_iteration' = 0
    /\ rx' = FALSE
    /\ chan' = <<>>
    /\ UNCHANGED <<verifiers, unreported, writing, handled>>
    /\ UNCHANGED <<loopVars, obsVars, fsVars, rc>>

\* a task prompt is typed on the setup screen after a reset
TypePrompt ==
    /\ screen = "Setup"
    /\ prompt_input = <<>>
    /\ prompt_input' = <<"P">>
    /\ UNCHANGED <<screen, verifiers, unreported, writing>>
    /\ UNCHANGED <<loopVars, obsVars, uiVars, fsVars, rc>>

\* Reset with a fault: Ctrl+N is also taken on the running screen
ResetWhileRunning == ResetStep({"Running", "Done"})

\* (KeyCode::Char('n'), CONTROL) if app.screen == Screen::Done
Reset == ResetStep({"Done"})

AppInit == Constructed(LoadedLists, {<<"P">>})

\* the user interface, run_loop and the CLI children side by side
AppNext ==
    \/ AppStartRun
    \/ AppLoopStep(RunClaudeStart)
    \/ AppLoopStep(ChildWrite)
    \/ AppLoopStep(ChildExit)
    \/ AppLoopStep(IterationBegin)
    \/ AppLoopStep(MaxIterationsReached)
    \/ AppLoopStep(WorkerOk)
    \/ AppLoopStep(WorkerErr)
    \/ AppLoopStep(VerifierBegin)
    \/ AppLoopStep(VerifierErr)
    \/ AppLoopStep(VerifierOk)
    \/ AppLoopStep(AllPassed)
    \/ UncheckOpen
    \/ AppLoopStep(writing /\ NotAllPassed)
    \/ Drain
    \/ Reset
    \/ TypePrompt

AppSpec == AppInit /\ [][AppNext]_vars

(***************************************************************************)
(* The file store on its own: parse_checkboxes and uncheck_all applied to  *)
(* a scratch file of any contents, as the CLI children may leave it.       *)
(***************************************************************************)
\* most lines of the file
MaxLines == 2

TAB == "\t"

\* lines of the file: the checkbox forms and their near misses, a line
\* whose name is empty, plain text, an empty line, a line ending in "\r"
LinePool ==
    { <<"[", "x", "]", " ", "a">>,
      <<"[", "]", " ", "a">>,
      <<"[", " ", "]", " ", "a">>,
      <<"[", "X", "]", " ", "a">>,
      <<"[", "*", "]", " ", "a">>,
      <<"[", " ", "x", "]", " ", "a">>,
      <<"[", TAB, "]", " ", "a">>,
      <<"[", "x", "]", " ">>,
      <<"[", "x", "]", "a">>,
      <<"t">>,
      <<>>,
      <<"[", "x", "]", " ", "a", CR>> }

\* line terminators
Endings == {<<NL>>, <<CR, NL>>}

RECURSIVE Texts(_)
\* the texts of n terminated lines
Texts(n) ==
    IF n = 0 THEN {<<>>}
    ELSE {l \o e \o t : l \in LinePool, e \in Endings, t \in Texts(n - 1)}

\* the contents of the file: up to MaxLines lines, the last one with or
\* without its terminator
FileContents ==
    UNION {Texts(n) : n \in 0..MaxLines}
    \cup UNION {{t \o l : t \in Texts(n - 1), l \in LinePool \ {<<>>}} : n \in 1..MaxLines}

\* a FileManager on a file of any contents; no run is started
FsInit ==
    /\ file \in FileContents
    /\ op = "none"
    /\ before = <<>>
    /\ returned = <<>>
    /\ rc = NotCalled
    /\ screen = "Setup"
    /\ prompt_input = <<>>
    /\ verifiers = <<>>
    /\ pc = "idle"
    /\ iteration = 0
    /\ i = 0
    /\ all_passed = TRUE
    /\ cli = Idle
    /\ log = <<>>
    /\ reported = <<>>
    /\ starts = <<>>
    /\ nDone = 0
    /\ nUncheck = 0
    /\ invoked = <<>>
    /\ parsed = <<>>
    /\ outcome = [workerFailed |-> FALSE, uncheckFailed |-> FALSE, failedIters |-> 0]
    /\ unreported = FALSE
    /\ writing = FALSE
    /\ rx = FALSE
    /\ chan = <<>>
    /\ verifier_statuses = <<>>
    /\ file_contents = <<>>
    /\ app_iteration = 0
    /\ logs = ""
    /\ handled = <<>>

\* CallParseCheckboxes with a fault: the lines read are written back
CallParseCheckboxesWritesBack ==
    /\ op' = "parse_checkboxes"
    /\ before' = file
    /\ returned' = parse_checkboxes(file)
    /\ file' = Join(Lines(file), <<NL>>)
    /\ UNCHANGED <<pc, iteration, i, all_passed, cli, log, unreported, writing>>
    /\ UNCHANGED <<appVars, obsVars, uiVars, rc>>

\* file_manager.parse_checkboxes() returns Ok(entries)
CallParseCheckboxes ==
    /\ op' = "parse_checkboxes"
    /\ before' = file
    /\ returned' = parse_checkboxes(file)
    /\ UNCHANGED <<file, pc, iteration, i, all_passed, cli, log, unreported, writing>>
    /\ UNCHANGED <<appVars, obsVars, uiVars, rc>>

\* CallUncheckAll with a fault: a line terminator is added to what is written
CallUncheckAllAppends ==
    /\ op' = "uncheck_all"
    /\ before' = file
    /\ file' = uncheck_all(file) \o <<NL>>
    /\ returned' = <<>>
    /\ UNCHANGED <<pc, iteration, i, all_passed, cli, log, unreported, writing>>
    /\ UNCHANGED <<appVars, obsVars, uiVars, rc>>

\* file_manager.uncheck_all() returns Ok(())
CallUncheckAll ==
    /\ op' = "uncheck_all"
    /\ before' = file
    /\ file' = uncheck_all(file)
    /\ returned' = <<>>
    /\ UNCHANGED <<pc, iteration, i, all_passed, cli, log, unreported, writing>>
    /\ UNCHANGED <<appVars, obsVars, uiVars, rc>>

FsNext ==
    \/ CallParseCheckboxes
    \/ CallUncheckAll

FileSpec == FsInit /\ [][FsNext]_vars

(***************************************************************************)
(* runner.rs: run_claude on its own, one system call at a time, called     *)
(* again and again as run_loop calls it.                                   *)
(***************************************************************************)
\* most calls of run_claude
MaxCalls == 3

\* exit codes of the child, what it wrote to stdout and to stderr
ExitCodes == {0, 1}
Stdouts == {"", "o"}
Stderrs == {"", "e"}

\* Display of std::process::ExitStatus
ExitStatus(code) == "exit status: " \o ToString(code)

\* the pieces of format!("claude exited with {}: stdout={}, stderr={}", ..)
ExitMessage(code, stdout, stderr) ==
    <<"claude exited with ", ExitStatus(code), ": stdout=", stdout, ", stderr=", stderr>>

\* Ok(String::from_utf8_lossy(&result.stdout).to_string())
OkStdout(stdout) == [st |-> "ok", out |-> stdout]

\* run_claude(prompt) is called
CallRunClaude ==
    /\ rc.pos \in {"none", "returned"}
    /\ rc.n < MaxCalls
    /\ rc' = [NotCalled EXCEPT !.pos = "entry", !.n = rc.n + 1,
                               !.left = rc.left + IF rc.prompt_file THEN 1 ELSE 0]

\* write_prompt_file(prompt).map_err(..)?
WritePromptFile ==
    /\ rc.pos = "entry"
    /\ \E ok \in BOOLEAN :
          rc' = IF ok
                THEN [rc EXCEPT !.pos = "written", !.wrote = TRUE, !.prompt_file = TRUE]
                ELSE [rc EXCEPT !.pos = "returned", !.result = Err(ErrWrite)]

\* Command::new("bash") .. .output().await.map_err(..)?
SpawnBash ==
    /\ rc.pos = "written"
    /\ \/ \E code \in ExitCodes, out \in Stdouts, err \in Stderrs :
             rc' = [rc EXCEPT !.pos = "exited", !.spawned = TRUE, !.code = code,
                              !.stdout = out, !.stderr = err]
       \/ rc' = [rc EXCEPT !.pos = "returned", !.result = Err(ErrSpawn)]

\* cleanup_prompt_file(&prompt_file): let _ = fs::remove_file(path)
CleanupPromptFile ==
    /\ rc.pos = "exited"
    /\ \E removed \in BOOLEAN :
          rc' = [rc EXCEPT !.pos = "cleaned", !.cleaned = TRUE,
                           !.prompt_file = ~removed]

\* ReturnResult with a fault: the exit status is not looked at
ReturnResultAlwaysOk ==
    /\ rc.pos = "cleaned"
    /\ rc' = [rc EXCEPT !.pos = "returned", !.result = OkStdout(rc.stdout)]

\* if result.status.success() { Ok(stdout) } else { Err(format!(..)) }
ReturnResult ==
    /\ rc.pos = "cleaned"
    /\ rc' = [rc EXCEPT !.pos = "returned",
                        !.result = IF rc.code = 0
                                   THEN OkStdout(rc.stdout)
                                   ELSE Err(ExitMessage(rc.code, rc.stdout, rc.stderr))]

\* a step of run_claude; nothing else runs
CliStep(A) ==
    /\ A
    /\ UNCHANGED <<unreported, writing>>
    /\ UNCHANGED <<appVars, loopVars, obsVars, uiVars, fsVars>>

CliInit == Constructed({<<>>}, {<<"P">>})

CliNext ==
    \/ CliStep(CallRunClaude)
    \/ CliStep(WritePromptFile)
    \/ CliStep(SpawnBash)
    \/ CliStep(CleanupPromptFile)
    \/ CliStep(ReturnResult)

CliSpec == CliInit /\ [][CliNext]_vars

(***************************************************************************)
(* Properties of run_loop.                                                 *)
(***************************************************************************)
Last(l) == l[Len(l)]

Range(l) == {l[n] : n \in 1..Len(l)}

EndsIn(l, ms) == EndsWith(l, ms)

MaxIterationsError == Error("Reached maximum iterations (10). Stopping.")

WorkerFailedErrors == {Error("Worker failed: " \o e) : e \in {ErrWrite, ErrSpawn, ErrExit}}

UncheckFailedError == Error("Failed to uncheck boxes: io error")

\* the verifier phase of the current iteration is over
DecisionPoint == pc = "verifiers" /\ i > Len(verifiers)

\* C1: a run in which the worker and uncheck_all always succeed and every
\* iteration has a verifier that is not passed sends exactly the
\* IterationStart messages 1..10 and ends with the max-iterations Error,
\* and no other run sends that Error.
C1_MaxIterations ==
    /\ (/\ pc = "returned"
        /\ ~outcome.workerFailed
        /\ ~outcome.uncheckFailed
        /\ outcome.failedIters = Len(starts))
       => /\ starts = [k \in 1..10 |-> k]
          /\ Last(log) = MaxIterationsError
    /\ MaxIterationsError \in Range(log)
       => /\ Last(log) = MaxIterationsError
          /\ \A n \in 1..(Len(log) - 1) : log[n] # MaxIterationsError
          /\ pc = "returned"
          /\ starts = [k \in 1..10 |-> k]
          /\ ~outcome.workerFailed
          /\ ~outcome.uncheckFailed
          /\ outcome.failedIters = 10
          /\ nDone = 0

C1_Witness ==
    /\ pc = "returned"
    /\ Last(log) = MaxIterationsError
    /\ Len(starts) = 10

\* C2: at most one Done is sent, and once Done is sent nothing is sent
\* after it.
C2_AtMostOneDone ==
    /\ [](/\ nDone <= 1
          /\ Done \in Range(log) => nDone = 1
          /\ nDone = 1 => pc = "returned" /\ Last(log) = Done)
    /\ [][nDone >= 1 => log' = log /\ starts' = starts /\ reported' = reported]_vars

C2_Witness == nDone = 1 /\ pc = "returned" /\ Last(log) = Done /\ iteration > 1

\* C3: when the worker call of an iteration returns an error e, the loop
\* sends Error("Worker failed: <e>") and stops: no status of that iteration
\* is sent, no verifier is invoked, uncheck_all is not called, and nothing
\* is sent afterwards.
C3_WorkerFatal ==
    /\ [][(pc = "worker" /\ cli.st = "err")
            => /\ log' = Append(log, Error("Worker failed: " \o cli.e))
               /\ pc' = "returned"
               /\ outcome'.workerFailed]_vars
    /\ [](outcome.workerFailed
            => /\ pc = "returned"
               /\ Len(log) = 4
               /\ log[1] = IterationStart(iteration)
               /\ log[2].type = "Log" /\ log[3].type = "Log"
               /\ log[4] \in WorkerFailedErrors
               /\ \A k \in 1..Len(verifiers) : reported[k] = "Pending"
               /\ invoked = <<0>>
               /\ parsed = <<>>
               /\ nUncheck = Len(starts) - 1
               /\ nDone = 0)
    /\ [][outcome.workerFailed => UNCHANGED <<log, starts, reported, invoked,
                                              parsed, nUncheck, nDone, file>>]_vars

C3_Witness ==
    /\ outcome.workerFailed
    /\ iteration > 1
    /\ Last(log) = Error("Worker failed: " \o ErrExit)

\* C4: in an iteration whose worker call succeeded, every verifier of the
\* list is invoked exactly once, in the order of the list, whatever the
\* outcome of the verifiers before it.
C4_EveryVerifierInvoked ==
    LET all == [k \in 1..(Len(verifiers) + 1) |-> k - 1]
    IN  /\ Len(invoked) <= Len(all)
        /\ invoked = SubSeq(all, 1, Len(invoked))
        /\ (\/ DecisionPoint
            \/ pc = "for" /\ iteration >= 1
            \/ pc = "returned" /\ ~outcome.workerFailed)
           => invoked = all

C4_Witness ==
    /\ DecisionPoint
    /\ Len(verifiers) = 2
    /\ invoked = <<0, 1, 2>>
    /\ parsed = <<2>>
    /\ reported[1] = "Failed"

\* the verifiers before verifier i whose call of run_claude returned Err:
\* they were invoked and parse_checkboxes was not called for them
ErroredVerifiers ==
    {k \in 1..Len(verifiers) :
        /\ k \in Range(invoked)
        /\ k \notin Range(parsed)
        /\ (k < i \/ pc \in {"for", "returned"})}

\* C5: when the call of verifier i returns an error e, the loop sends
\* Error("Verifier '<name>' failed to run: <e>") and then
\* VerifierStatusUpdate(i, Failed), sends neither FileUpdated nor
\* Log("<name>: FAILED") for it, does not read the scratch file, and the
\* iteration does not end in Done.
C5_VerifierInvocationError ==
    /\ [][(pc = "verifier" /\ cli.st = "err")
            => /\ log' = log \o <<Error("Verifier '" \o Str(verifiers[i].name)
                                        \o "' failed to run: " \o cli.e),
                                  VerifierStatusUpdate(i - 1, "Failed")>>
               /\ FileUpdated \notin Range(log')
               /\ Log(Str(verifiers[i].name) \o ": FAILED") \notin Range(log')
               /\ parsed' = parsed
               /\ file' = file]_vars
    /\ [](ErroredVerifiers # {}
            => /\ ~(pc = "returned" /\ Last(log) = Done)
               /\ (pc # "returned" => nDone = 0)
               /\ \A k \in ErroredVerifiers : reported[k] = "Failed")
    /\ [][(DecisionPoint /\ ErroredVerifiers # {}) => nDone' = nDone]_vars

C5_Witness ==
    /\ pc = "for"
    /\ Len(verifiers) = 2
    /\ ErroredVerifiers = {1}
    /\ reported = <<"Failed", "Passed">>

\* C6: a verifier whose checkbox could not be parsed is marked Failed, so
\* every verifier that was reported Running is reported Passed or Failed
\* before the next verifier starts.
C6_ParseErrorMarksFailed ==
    \A k \in 1..Len(reported) :
        (pc = "verifiers" /\ k < i) => reported[k] \in {"Passed", "Failed"}

\* the first entry, in file order, with this name is a checked one
FirstEntryChecked(checkboxes, name) ==
    \E k \in 1..Len(checkboxes) :
        /\ checkboxes[k].name = name
        /\ checkboxes[k].checked
        /\ \A m \in 1..(k - 1) : checkboxes[m].name # name

\* C7: after a successful call of verifier v whose checkboxes were parsed,
\* the status sent is Passed if the first entry named v.name is checked,
\* and Failed otherwise, also when a later entry of that name is checked.
C7_FirstEntryDecides ==
    [][(pc = "verifier" /\ cli = Ok /\ Error("Failed to parse checkboxes: io error") \notin Range(log'))
         => /\ parsed' = Append(parsed, i)
            /\ Last(log').type = "Log"
            /\ log'[Len(log') - 1] =
                  VerifierStatusUpdate(i - 1,
                      IF FirstEntryChecked(parse_checkboxes(file), verifiers[i].name)
                      THEN "Passed" ELSE "Failed")
            /\ reported'[i] = log'[Len(log') - 1].status]_vars

\* a verifier was reported Failed although a later line of its name is checked
C7_Witness ==
    /\ pc = "verifiers"
    /\ i > 1
    /\ parsed # <<>>
    /\ Last(parsed) = i - 1
    /\ reported[i - 1] = "Failed"
    /\ Error("Failed to parse checkboxes: io error") \notin Range(log)
    /\ \E k \in 1..Len(parse_checkboxes(file)) :
          /\ parse_checkboxes(file)[k].name = verifiers[i - 1].name
          /\ parse_checkboxes(file)[k].checked

\* C8: at the end of an iteration Done is sent if and only if every
\* verifier was reported Passed in that iteration, whatever happened in the
\* iterations before, and Done comes right after a FileUpdated.
C8_DoneIffAllPassed ==
    /\ [][DecisionPoint
            => /\ (nDone' = nDone + 1) <=> EveryVerifierPassed
               /\ (Done \in Range(log')) <=> EveryVerifierPassed
               /\ EveryVerifierPassed => EndsIn(log', <<FileUpdated, Done>>)]_vars
    /\ [](nDone = 1 => EveryVerifierPassed /\ EndsIn(log, <<FileUpdated, Done>>))

\* Done in a later iteration, after an iteration that failed
C8_Witness ==
    /\ nDone = 1
    /\ iteration = 2
    /\ outcome.failedIters = 1
    /\ Len(verifiers) = 2

\* C9: an iteration that ends with all_passed false calls uncheck_all once
\* before the next IterationStart; on success FileUpdated is sent and the
\* loop goes on, on failure Error("Failed to uncheck boxes: <e>") is the
\* last message of the run.
C9_UncheckOnce ==
    /\ [][(DecisionPoint /\ ~all_passed)
            => /\ nUncheck' = nUncheck + 1
               /\ \/ /\ file' = uncheck_all(file)
                     /\ Last(log') = FileUpdated
                     /\ pc' = "for"
                  \/ /\ Last(log') = UncheckFailedError
                     /\ pc' = "returned"
                     /\ outcome'.uncheckFailed]_vars
    /\ [][Len(starts') > Len(starts) => nUncheck' = nUncheck /\ nUncheck = Len(starts)]_vars
    /\ [](/\ nUncheck <= Len(starts)
          /\ outcome.uncheckFailed
               => /\ pc = "returned"
                  /\ Last(log) = UncheckFailedError
                  /\ MaxIterationsError \notin Range(log))
    /\ [][outcome.uncheckFailed => UNCHANGED <<log, starts, nUncheck>>]_vars

C9_Witness ==
    /\ outcome.uncheckFailed
    /\ iteration = 2
    /\ nUncheck = 2
    /\ Last(log) = UncheckFailedError

\* C10: when IterationStart(k) is sent, k = 1 included, no line of the
\* scratch file is a checked checkbox line.
C10_UncheckedAtIterationStart ==
    (pc = "worker" /\ cli = Idle /\ invoked = <<>>)
        => \A k \in 1..Len(parse_checkboxes(file)) : ~parse_checkboxes(file)[k].checked

(***************************************************************************)
(* Properties of the file store.                                           *)
(***************************************************************************)
\* the entries create is meant to write: one per name, in order, unchecked
Unchecked(names) == [k \in 1..Len(names) |-> [name |-> names[k], checked |-> FALSE]]

\* C11: right after create, parse_checkboxes returns exactly one entry per
\* verifier name, in the order of the names, all unchecked, whatever the
\* names and the prompt are.
C11_CreateThenParse ==
    (pc = "for" /\ iteration = 0) => parse_checkboxes(file) = Unchecked(verifier_names)

\* text s holds the text p somewhere
HasSub(s, p) == \E k \in 1..(Len(s) - Len(p) + 1) : SubSeq(s, k, k + Len(p) - 1) = p

\* a line that still ends in "\r" once its terminator "\r\n" is removed
StrayCR(contents) == HasSub(contents, <<CR, CR, NL>>)

\* the entries b, all unchecked
AllUnchecked(b) == [k \in 1..Len(b) |-> [name |-> b[k].name, checked |-> FALSE]]

\* C12 as stated: for any file contents, after uncheck_all parse_checkboxes
\* returns as many entries as before, with the same names in the same
\* order, all unchecked.
C12_UncheckKeepsEntries ==
    op = "uncheck_all" => parse_checkboxes(file) = AllUnchecked(parse_checkboxes(before))

\* C12 amended: after uncheck_all every entry parse_checkboxes returns is
\* unchecked; the entries are those of before, in number, names and order,
\* when no line of the file ended in "\r" followed by "\r\n".
C12_UncheckKeepsEntriesNoStrayCR ==
    op = "uncheck_all"
        => /\ \A k \in 1..Len(parse_checkboxes(file)) : ~parse_checkboxes(file)[k].checked
           /\ ~StrayCR(before)
                => parse_checkboxes(file) = AllUnchecked(parse_checkboxes(before))

C12_Witness ==
    /\ op = "uncheck_all"
    /\ ~StrayCR(before)
    /\ HasSub(before, <<CR, NL>>)
    /\ Len(parse_checkboxes(before)) = 2
    /\ parse_checkboxes(before)[1].checked
    /\ ~parse_checkboxes(before)[2].checked

\* what C13 says of the lines: a line beginning with "[x] " has that prefix
\* replaced by "[] ", any other line keeps its text, the order is kept
LinesRewritten(old, new) ==
    /\ Len(Lines(new)) = Len(Lines(old))
    /\ \A j \in 1..Len(Lines(old)) :
          LET l == Lines(old)[j]
              m == Lines(new)[j]
          IN  IF Len(l) >= 4 /\ l[1] = "[" /\ l[2] = "x" /\ l[3] = "]" /\ l[4] = " "
              THEN m = <<"[", "]", " ">> \o SubSeq(l, 5, Len(l))
              ELSE m = l

SameEnd(old, new) == EndsWith(new, <<NL>>) <=> EndsWith(old, <<NL>>)

FirstClose(l) ==
    IF \E k \in 1..Len(l) : l[k] = "]"
    THEN CHOOSE k \in 1..Len(l) : l[k] = "]" /\ \A m \in 1..(k - 1) : l[m] # "]"
    ELSE 0

\* the text between the opening "[" of a line and its first "]"
Box(l) == SubSeq(l, 2, FirstClose(l) - 1)

\* the text after the "] " that closes the brackets
AfterBox(l) == SubSeq(l, FirstClose(l) + 2, Len(l))

\* the line is "[" box "] " name, the box being one of boxes and the name
\* not empty
Matches(l, boxes) ==
    /\ Len(l) >= 1
    /\ l[1] = "["
    /\ FirstClose(l) > 0
    /\ Box(l) \in boxes
    /\ Len(l) > FirstClose(l) + 1
    /\ l[FirstClose(l) + 1] = " "

\* the brackets the file format allows, and those of the pattern \s
FormatBoxes == {<<"x">>, <<>>, <<" ">>}
Whitespace == {" ", TAB, CR}
WhitespaceBoxes == {<<"x">>, <<>>} \cup {<<w>> : w \in Whitespace}

\* the lines of the contents that match, in file order
Matching(contents, boxes) == SelectSeq(Lines(contents), LAMBDA l : Matches(l, boxes))

\* C14: an entry is checked exactly when its brackets hold the single
\* lowercase x; "[] name" and "[ ] name" are unchecked entries; "[X] name",
\* "[*] name" and "[ x] name" are no entries.
C14_CheckedIffLowercaseX ==
    op = "parse_checkboxes"
        => LET ls == Matching(before, FormatBoxes)
           IN  /\ Len(returned) = Len(ls)
               /\ \A k \in 1..Len(ls) :
                     /\ returned[k].checked <=> Box(ls[k]) = <<"x">>
                     /\ Box(ls[k]) \in {<<>>, <<" ">>} => ~returned[k].checked
               /\ \A j \in 1..Len(Lines(before)) :
                     Box(Lines(before)[j]) \in {<<"X">>, <<"*">>, <<" ", "x">>}
                        => parse_checkboxes(Lines(before)[j]) = <<>>

C14_Witness ==
    /\ op = "parse_checkboxes"
    /\ Len(Lines(before)) = 2
    /\ Lines(before)[1] = <<"[", "X", "]", " ", "a">>
    /\ Lines(before)[2] = <<"[", "x", "]", " ", "a">>
    /\ returned = <<[name |-> <<"a">>, checked |-> TRUE]>>

\* the entries of the lines that match, the second capture as name
Entries(contents, boxes) ==
    LET ls == Matching(contents, boxes)
    IN  [k \in 1..Len(ls) |-> [name |-> AfterBox(ls[k]), checked |-> Box(ls[k]) = <<"x">>]]

\* C15 as stated: a line yields an entry iff it matches ^\[(x|\s?)\] (.+)$,
\* the brackets holding x, nothing or any one whitespace character; the
\* entries come in file order with the second capture as name.
C15_GrammarWhitespace ==
    op = "parse_checkboxes" => returned = Entries(before, WhitespaceBoxes)

\* C15 amended: the brackets hold x, nothing or one space, as in the
\* pattern ^\[(x| |)\] (.+)$.
C15_GrammarSpace ==
    op = "parse_checkboxes" => returned = Entries(before, FormatBoxes)

C15_Witness ==
    /\ op = "parse_checkboxes"
    /\ Len(Lines(before)) = 2
    /\ Lines(before)[1] = <<"[", TAB, "]", " ", "a">>
    /\ Lines(before)[2] = <<"[", " ", "]", " ", "a">>
    /\ returned = <<[name |-> <<"a">>, checked |-> FALSE]>>

(***************************************************************************)
(* Properties of the order of the events.                                  *)
(***************************************************************************)
\* C16: the IterationStart payloads are 1, 2, 3, ... and never exceed
\* max_iterations; every message is sent after the IterationStart of the
\* iteration run_loop is in and before the next one, and nothing after the
\* loop returned; in the verifier phase a status update carries the index
\* of the verifier the loop is at, and that index never goes back.
C16_IterationOrder ==
    /\ [](/\ starts = [k \in 1..Len(starts) |-> k]
          /\ Len(starts) <= max_iterations
          /\ pc \notin {"idle", "for", "returned"} => Len(starts) = iteration)
    /\ [][NewMessages # <<>>
            => /\ pc # "returned"
               /\ starts' # <<>>
               /\ Last(starts') = iteration'
               /\ \A n \in 1..Len(NewMessages) :
                     /\ NewMessages[n].type = "IterationStart"
                          => /\ n = 1
                             /\ NewMessages[n].n = iteration + 1
                             /\ starts' = Append(starts, iteration + 1)
                     /\ NewMessages[n].type = "VerifierStatusUpdate"
                          => /\ NewMessages[n].index = i - 1
                             /\ pc \in {"verifiers", "verifier"}
                             /\ i \in 1..Len(verifiers)]_vars
    /\ [][/\ starts' # starts => NewMessages[1] = IterationStart(Last(starts'))
          /\ iteration' = iteration => i' >= i \/ pc = "worker"
          /\ i' # i => i' = i + 1 \/ (pc = "worker" /\ i' = 1)]_vars

C16_Witness ==
    /\ Len(starts) = max_iterations
    /\ Len(verifiers) = 2
    /\ pc = "verifier"
    /\ i = 2
    /\ reported[1] = "Failed"
    /\ reported[2] = "Running"

\* a call of run_claude starts
InvocationStarts == cli = Idle /\ cli' # Idle

\* no FileUpdated is sent before the first call of run_claude has returned
NoEarlyFileUpdated ==
    (\/ pc = "idle"
     \/ (pc = "for" /\ iteration = 0)
     \/ (pc = "worker" /\ iteration = 1)
     \/ (pc = "returned" /\ iteration = 1 /\ outcome.workerFailed))
        => FileUpdated \notin Range(log)

\* C17 as stated: every call of run_claude whose child ran is followed by
\* a FileUpdated sent after it returns and before the next call starts,
\* and no FileUpdated is sent before the first call has returned.
C17_FileUpdatedAfterEveryCall ==
    /\ [][InvocationStarts => ~unreported]_vars
    /\ [](pc = "returned" => ~unreported)
    /\ []NoEarlyFileUpdated

\* C17 amended: a call that returns Ok is followed by a FileUpdated sent
\* before anything else is done; a child that ran and was not followed by
\* a FileUpdated is one whose call returned Err: a verifier before the one
\* being called, or the last call before the loop returned with an Error.
C17_FileUpdatedAfterOk ==
    /\ [][(cli = Ok /\ cli' = Idle)
            => /\ NewMessages # <<>>
               /\ \E n \in 1..Len(NewMessages) :
                     /\ NewMessages[n] = FileUpdated
                     /\ \A m \in 1..(n - 1) : NewMessages[m].type = "Log"]_vars
    /\ [][(InvocationStarts /\ unreported)
            => /\ pc = "verifier"
               /\ i > 1
               /\ (i - 1) \in ErroredVerifiers
               /\ reported[i - 1] = "Failed"]_vars
    /\ []((pc = "returned" /\ unreported)
            => (outcome.workerFailed \/ outcome.uncheckFailed) /\ nDone = 0)
    /\ []NoEarlyFileUpdated

C17_Witness ==
    /\ pc = "verifier"
    /\ i = 2
    /\ cli = Running
    /\ unreported
    /\ 1 \in ErroredVerifiers
    /\ reported[1] = "Failed"
    /\ FileUpdated \notin Range(log)

(***************************************************************************)
(* Properties of a run started from the setup screen.                      *)
(***************************************************************************)
\* the names of the enabled verifiers, in order
EnabledNames ==
    LET on == SelectSeq(verifiers, LAMBDA v : v.enabled)
    IN  [k \in 1..Len(on) |-> on[k].name]

\* C18: a run started from the setup screen consumes only the enabled
\* verifiers: the file is created with one checkbox line per enabled
\* verifier and none for a disabled one, and run_claude is called for the
\* enabled verifiers only.
C18_OnlyEnabledConsumed ==
    /\ (pc = "for" /\ iteration = 0) => parse_checkboxes(file) = Unchecked(EnabledNames)
    /\ \A n \in 1..Len(invoked) : invoked[n] # 0 => verifiers[invoked[n]].enabled

\* the loop steps that can be taken now
LoopCanStep ==
    \/ ENABLED AppLoopStep(RunClaudeStart)
    \/ ENABLED AppLoopStep(ChildExit)
    \/ ENABLED AppLoopStep(IterationBegin)
    \/ ENABLED AppLoopStep(MaxIterationsReached)
    \/ ENABLED AppLoopStep(WorkerOk)
    \/ ENABLED AppLoopStep(WorkerErr)
    \/ ENABLED AppLoopStep(VerifierBegin)
    \/ ENABLED AppLoopStep(VerifierErr)
    \/ ENABLED AppLoopStep(VerifierOk)
    \/ ENABLED AppLoopStep(AllPassed)
    \/ ENABLED AppLoopStep(NotAllPassed)

C21_OneChildAtATime ==
    /\ [](cli = Running
            => /\ pc \in {"worker", "verifier"}
               /\ invoked # <<>>
               /\ Last(invoked) = IF pc = "worker" THEN 0 ELSE i)
    /\ [][InvocationStarts
            => /\ cli' \in {Running, Err(ErrWrite), Err(ErrSpawn)}
               /\ pc = "worker" => invoked = <<>>
               /\ pc = "verifier"
                    => /\ invoked = <<0>> \o [k \in 1..(i - 1) |-> k]
                       /\ \A k \in 1..(i - 1) :
                             k \in Range(parsed) \/ k \in ErroredVerifiers]_vars
    /\ [][(Len(parsed') > Len(parsed) \/ nUncheck' # nUncheck)
            => cli # Running /\ cli' = Idle]_vars

C21_Witness ==
    /\ cli = Running
    /\ pc = "verifier"
    /\ i = 2
    /\ invoked = <<0, 1, 2>>
    /\ parsed = <<1>>
    /\ iteration = 2

\* C22: when the user interface handles FileUpdated, its read_contents does
\* not fall inside the rewrite of uncheck_all, and what it reads is the
\* file as it is, never a file that is being rewritten.
C22_NoReadDuringRewrite ==
    [][(rx' /\ chan # <<>> /\ chan' = Tail(chan) /\ Head(chan) = FileUpdated)
          => /\ ~writing
             /\ file_contents' \in {file, file_contents}]_vars

\* C23: the user interface never writes the scratch file once it is created,
\* and file_contents is read from the file only at the start of a run and
\* when FileUpdated is handled; handling Log, VerifierStatusUpdate,
\* IterationStart, Done or Error leaves file_contents as it is, and apart
\* from the two reads it changes only when reset_for_new_run clears it.
C23_SnapshotOnlyOnFileUpdated ==
    /\ [][file' # file
            => \/ screen = "Setup" /\ screen' = "Running"
               \/ cli = Running /\ cli' = Running
               \/ nUncheck' = nUncheck + 1]_vars
    /\ [][(rx' /\ chan # <<>> /\ chan' = Tail(chan) /\ Head(chan) # FileUpdated)
            => file_contents' = file_contents /\ file' = file]_vars
    /\ [][file_contents' # file_contents
            => \/ screen = "Setup" /\ screen' = "Running"
               \/ rx' /\ chan # <<>> /\ chan' = Tail(chan) /\ Head(chan) = FileUpdated
               \/ screen = "Done" /\ screen' = "Setup" /\ file_contents' = <<>>]_vars

C23_Witness ==
    /\ handled # <<>>
    /\ handled.type = "VerifierStatusUpdate"
    /\ file_contents # file
    /\ file_contents # <<>>
    /\ ~writing

\* C24: run_claude returns Ok(stdout) exactly when the prompt file was
\* written, the child was spawned and its exit status is zero; it returns
\* Err when the write fails, when the spawn fails and when the status is
\* not zero, and in that last case the message carries the exit status,
\* stdout and stderr.
C24_OkIffAllThree ==
    rc.pos = "returned"
        => /\ rc.result.st \in {"ok", "err"}
           /\ rc.result.st = "ok" <=> (rc.wrote /\ rc.spawned /\ rc.code = 0)
           /\ rc.result.st = "ok" => rc.result.out = rc.stdout
           /\ ~rc.wrote => rc.result = Err(ErrWrite)
           /\ (rc.wrote /\ ~rc.spawned) => rc.result = Err(ErrSpawn)
           /\ (rc.spawned /\ rc.code # 0)
                 => /\ rc.result.st = "err"
                    /\ {ExitStatus(rc.code), rc.stdout, rc.stderr}
                          \subseteq Range(rc.result.e)

C24_Witness ==
    /\ rc.pos = "returned"
    /\ rc.spawned
    /\ rc.code = 1
    /\ rc.stdout = "o"
    /\ rc.stderr = "e"
    /\ rc.n = 2

\* C25: a call of run_claude that created its prompt file has called
\* cleanup_prompt_file by the time it returns, on every return path.
C25_PromptFileCleanedOnReturn ==
    (rc.pos = "returned" /\ rc.wrote) => rc.cleaned

\* C26: with every child exiting in the end, a run that was started returns;
\* it starts at most max_iterations iterations and makes at most
\* max_iterations * (1 + number of verifiers) calls of run_claude; and the
\* last message it sent when it returns is Done, Error("Worker failed: ..."),
\* Error("Failed to uncheck boxes: ...") or the maximum-iterations Error.
C26_RunTerminates ==
    /\ (pc # "idle") ~> (pc = "returned")
    /\ [](Len(starts) <= max_iterations)
    /\ [](Len(invoked) <= 1 + Len(verifiers))
    /\ [](starts # <<>>
            => (Len(starts) - 1) * (1 + Len(verifiers)) + Len(invoked)
                  <= max_iterations * (1 + Len(verifiers)))
    /\ [](pc = "returned"
            => /\ log # <<>>
               /\ Last(log) \in {Done, UncheckFailedError, MaxIterationsError}
                                   \cup WorkerFailedErrors
               /\ Last(log) = Done <=> nDone = 1)
    /\ [][pc = "returned" => log' = log /\ pc' = "returned"]_vars

C26_Witness ==
    /\ pc = "returned"
    /\ Len(starts) = max_iterations
    /\ Len(invoked) = 1 + Len(verifiers)
    /\ Len(verifiers) = 2
    /\ Last(log) = MaxIterationsError

C28_UncheckTwice ==
    [][(op = "uncheck_all" /\ op' = "uncheck_all") => file' = file]_vars

\* C28 amended: uncheck_all applied to what uncheck_all wrote leaves the file
\* as it is when no line of the original file ended in "\r" followed by
\* "\r\n".
C28_UncheckTwiceNoStrayCR ==
    [][(op = "uncheck_all" /\ op' = "uncheck_all" /\ ~StrayCR(before))
          => file' = file]_vars

C28_Witness ==
    /\ op = "uncheck_all"
    /\ before = file
    /\ HasSub(file, <<"[", "]", " ", "a", NL>>)
    /\ ~HasSub(file, <<CR>>)
    /\ Len(Lines(file)) = MaxLines

\* C29: an iteration after the first starts on the file uncheck_all wrote at
\* the end of the iteration before, in which no entry is checked; during
\* the iteration only a child of one of its CLI invocations writes the
\* file; so the checked first entry that a Passed of that iteration was
\* read from was written by a CLI invocation of that iteration.
C29_PassedIsFresh ==
    /\ [][(nUncheck' = nUncheck + 1 /\ pc' = "for") => file' = uncheck_all(file)]_vars
    /\ [][pc = "for" => file' = file]_vars
    /\ [][(Len(starts') > Len(starts) /\ starts # <<>>)
            => /\ nUncheck = Len(starts)
               /\ \A k \in 1..Len(parse_checkboxes(file')) :
                     ~parse_checkboxes(file')[k].checked]_vars
    /\ [][(iteration >= 2 /\ pc \in {"worker", "verifiers", "verifier"}
             /\ file' # file /\ nUncheck' = nUncheck)
            => /\ cli = Running
               /\ cli' = Running
               /\ Last(invoked) = IF pc = "worker" THEN 0 ELSE i]_vars
    /\ [][\A k \in 1..Len(verifiers) :
             (iteration >= 2 /\ pc # "for" /\ reported[k] # "Passed" /\ reported'[k] = "Passed")
                => /\ k = i
                   /\ cli = Ok
                   /\ file' = file
                   /\ FirstEntryChecked(parse_checkboxes(file), verifiers[k].name)]_vars

C29_Witness ==
    /\ iteration = 3
    /\ pc = "verifiers"
    /\ i = 3
    /\ reported = <<"Failed", "Passed">>
    /\ outcome.failedIters = 2

\* C30 as stated: once Done is sent, the first entry of every verifier's
\* name in the file is checked.
C30_AllCheckedAtDone ==
    nDone = 1
        => \A k \in 1..Len(verifiers) :
              FirstEntryChecked(parse_checkboxes(file), verifiers[k].name)

\* C30 amended: Done is sent only when every verifier of the run was
\* reported Passed in the iteration, each on a first entry of its name that
\* was checked when parse_checkboxes read the file right after that
\* verifier's own call; once Done is sent the file still shows the first
\* entry of the last verifier's name checked.
C30_EachCheckedWhenRead ==
    /\ [][\A k \in 1..Len(verifiers) :
             (/\ k \in DOMAIN reported
              /\ k \in DOMAIN reported'
              /\ reported[k] # "Passed"
              /\ reported'[k] = "Passed")
                => /\ k = i
                   /\ Last(invoked) = k
                   /\ parsed' = Append(parsed, k)
                   /\ FirstEntryChecked(parse_checkboxes(file), verifiers[k].name)]_vars
    /\ [][nDone' # nDone
            => /\ \A k \in 1..Len(verifiers) : reported[k] = "Passed"
               /\ parsed = [k \in 1..Len(verifiers) |-> k]
               /\ file' = file]_vars
    /\ [](nDone = 1
            => FirstEntryChecked(parse_checkboxes(file), verifiers[Len(verifiers)].name))

\* Done although the second verifier's child unchecked the first one's box
C30_Witness ==
    /\ nDone = 1
    /\ Len(verifiers) = 2
    /\ verifiers[1].name # verifiers[2].name
    /\ ~FirstEntryChecked(parse_checkboxes(file), verifiers[1].name)
    /\ FirstEntryChecked(parse_checkboxes(file), verifiers[2].name)

(***************************************************************************)
(* Properties of the user interface and the loop together, and of the end  *)
(* of a run.                                                               *)
(***************************************************************************)
\* C31: when the user interface handles VerifierStatusUpdate(index, status),
\* the entry of verifier_statuses that carries the name of the verifier
\* run_loop has at that index takes the status and no other entry changes,
\* whichever verifiers of the setup list are enabled.
C31_StatusReachesItsVerifier ==
    [][(rx' /\ chan # <<>> /\ chan' = Tail(chan)
          /\ Head(chan).type = "VerifierStatusUpdate")
          => LET m == Head(chan)
             IN  \E k \in 1..Len(verifier_statuses') :
                    /\ verifier_statuses'[k].name = verifiers[m.index + 1].name
                    /\ verifier_statuses'[k].status = m.status
                    /\ Len(verifier_statuses') = Len(verifier_statuses)
                    /\ \A j \in 1..Len(verifier_statuses) :
                          j # k => verifier_statuses'[j] = verifier_statuses[j]]_vars

\* C32: the maximum-iterations Error is sent right after the FileUpdated
\* that follows the uncheck_all of the tenth iteration, with nothing written
\* to the file in between: uncheck_all has been called once per iteration
\* and no entry of the file is checked when the Error is sent.
C32_UncheckedAtMaxIterations ==
    /\ [][(log' # log /\ log' # <<>> /\ Last(log') = MaxIterationsError)
            => /\ pc = "for"
               /\ iteration = max_iterations
               /\ nUncheck = max_iterations
               /\ log # <<>>
               /\ Last(log) = FileUpdated
               /\ file' = file]_vars
    /\ []((log # <<>> /\ Last(log) = MaxIterationsError)
            => /\ pc = "returned"
               /\ Len(starts) = max_iterations
               /\ nUncheck = max_iterations
               /\ EndsIn(log, <<FileUpdated, MaxIterationsError>>)
               /\ \A k \in 1..Len(parse_checkboxes(file)) :
                     ~parse_checkboxes(file)[k].checked)

C32_Witness ==
    /\ pc = "returned"
    /\ log # <<>>
    /\ Last(log) = MaxIterationsError
    /\ Len(verifiers) = 2
    /\ Len(parse_checkboxes(file)) >= 2
    /\ HasSub(file, <<"=", "w">>)

\* C33: a run is started only from the setup screen and only while no
\* earlier run_loop task is still going; the running screen is left only
\* for the done screen, which is entered only by handling Done; from then on
\* the task that sent Done sends nothing and calls nothing; and a run that
\* ended with an Error leaves the screen at Running, where no run can be
\* started.
C33_OneRunAtATime ==
    /\ [][(screen # "Running" /\ screen' = "Running")
            => /\ screen = "Setup"
               /\ pc \in {"idle", "returned"}
               /\ cli # Running
               /\ pc' = "for"
               /\ iteration' = 0]_vars
    /\ [][pc' = "for" /\ pc \in {"idle", "returned"} => screen = "Setup"]_vars
    /\ [][screen = "Running" => screen' \in {"Running", "Done"}]_vars
    /\ [][(screen # "Done" /\ screen' = "Done")
            => /\ screen = "Running"
               /\ rx
               /\ chan # <<>>
               /\ Head(chan) = Done
               /\ chan' = Tail(chan)
               /\ pc = "returned"]_vars
    /\ [](screen = "Done" => pc = "returned" /\ nDone = 1 /\ cli = Idle)
    /\ [][(pc = "returned" /\ pc' = "returned")
            => log' = log /\ invoked' = invoked /\ file' = file /\ cli' = cli]_vars
    /\ []((pc = "returned" /\ nDone = 0)
            => screen = "Running" /\ ~ENABLED AppStartRun)

\* a second run has started its first iteration; the message handled last
\* is the Done of the run before
C33_Witness ==
    /\ screen = "Running"
    /\ pc = "worker"
    /\ iteration = 1
    /\ cli = Running
    /\ handled = Done
    /\ Len(verifiers) = 2

\* C34: run_loop called with an empty verifier list sends Done in iteration
\* 1 right after the worker call succeeded: the messages of the run are
\* IterationStart(1), the two Logs, "Worker complete.", FileUpdated,
\* FileUpdated, Done; there is one IterationStart, no
\* VerifierStatusUpdate, and uncheck_all is never called.
C34_EmptyListDone ==
    /\ [](verifiers = <<>>
            => /\ Len(starts) <= 1
               /\ iteration <= 1
               /\ nUncheck = 0
               /\ invoked \in {<<>>, <<0>>}
               /\ parsed = <<>>
               /\ pc # "verifier"
               /\ \A n \in 1..Len(log) : log[n].type # "VerifierStatusUpdate")
    /\ []((verifiers = <<>> /\ pc = "verifiers") => all_passed /\ nDone = 0)
    /\ [][(verifiers = <<>> /\ pc = "worker" /\ cli = Ok)
            => pc' = "verifiers" /\ file' = file]_vars
    /\ [][(verifiers = <<>> /\ pc = "verifiers")
            => /\ pc' = "returned"
               /\ nDone' = 1
               /\ file' = file
               /\ log' = <<IterationStart(1),
                           Log("--- Iteration 1 ---"),
                           Log("Starting worker..."),
                           Log("Worker complete."),
                           FileUpdated, FileUpdated, Done>>]_vars
    /\ []((verifiers = <<>> /\ pc = "returned")
            => \/ nDone = 1 /\ starts = <<1>>
               \/ Last(log) \in WorkerFailedErrors /\ nDone = 0 /\ starts = <<1>>)

C34_Witness ==
    /\ verifiers = <<>>
    /\ pc = "returned"
    /\ nDone = 1
    /\ starts = <<1>>
    /\ HasSub(file, <<"=", "w">>)

====
